---- MODULE Spec2Model ----
(***************************************************************************)
(* SessionView of the voice-assistant front-end as a state machine.        *)
(*                                                                         *)
(* Two variants of the component are in the repository:                    *)
(*   - src/components/session-view.tsx (remote-fetch variant): a settle    *)
(*     timer after each change of the message list issues a diagnostic     *)
(*     fetch;                                                              *)
(*   - src/unnamed/part_000 (local-parse variant): getLatestTextContent    *)
(*     parses the newest assistant message.                                *)
(* Both share the lifecycle effect and displayMessages, and both hand the  *)
(* resolved text to TextOutputPanel (text-output-panel.tsx).               *)
(*                                                                         *)
(* Time is in milliseconds.  A pending timer is a record with the time     *)
(* remaining to its deadline; time cannot pass a deadline while the timer  *)
(* is pending, other events of the same instant may run before it.         *)
(*                                                                         *)
(* A JS string is a sequence of lexemes (TLA+ strings): "{", ":", "\"",    *)
(* "VOICE:", "|||TEXT:", a word, a blank.  JSON.parse, JSON.stringify and  *)
(* the regular expressions work on these sequences.                        *)
(***************************************************************************)
EXTENDS Integers, Sequences, FiniteSets, TLC

VARIABLES
    mounted,          \* the component is mounted
    sessionStarted,   \* prop sessionStarted
    agentState,       \* useVoiceAssistant().state
    guardTimers,      \* pending timeouts of the lifecycle effect
    toasts,           \* reasons of the toastAlert calls since the session start
    disconnects,      \* room.disconnect() calls since the session start
    messages,         \* useChatAndTranscription().messages
    settleTimers,     \* pending timeouts of the diagnostic-fetch effect
    fetchesIssued,    \* fetchDiagnosticData() calls so far
    textContent,      \* textContent prop of TextOutputPanel at the last render
    panel,            \* what TextOutputPanel parsed at the last render
    displayMessages,  \* the transcript at the last render
    html,             \* the markup TextOutputPanel set for mainContent at the
                      \* last render, <<>> when it rendered none
    diagnosticData,   \* useState diagnosticData
    inFlight,         \* fetches issued whose promise is not settled, by issue number
    completed,        \* history: the settled fetches in the order they settled,
                      \* each with its issue number and its response
    burst,            \* history: since, the ms since the last change of
                      \* messages, counted up to the settle delay; changes,
                      \* the changes less than a settle delay apart that end
                      \* with it, counted up to 2; fetches, the fetches
                      \* issued since it
    elapsed,          \* history: ms since the session start
    readySeen,        \* history: "never", or when the agent was available since
                      \* the session start: "atStart" (no time had passed), "later"
    cancelled         \* history: ms to the deadline of each timer cleared by
                      \* a teardown or by the end of the session

vars == <<mounted, sessionStarted, agentState, guardTimers, toasts, disconnects,
          messages, settleTimers, fetchesIssued, textContent, panel,
          displayMessages, html, diagnosticData, inFlight, completed, burst, elapsed,
          readySeen, cancelled>>

renderVars == <<textContent, panel, displayMessages, html>>

fetchState == <<diagnosticData, inFlight, completed>>

----------------------------------------------------------------------------
(* Bounds *)

MaxSessionMs == 20000   \* SpecGuard follows a session for this long
MaxClockMs == 11000     \* Spec follows a session for this long
MaxMsgs == 2            \* messages received, messages kept of a longer list
MaxFetches == 2         \* SpecLive: fetches issued before the messages end

(* Program constants *)

GuardTimeoutMs == 10000
SettleDelayMs == 1000

\* Time passes in steps of half the settle delay: two events can be less than
\* a settle delay apart, and 9.5 s is before the lifecycle timeout.
TickMs == SettleDelayMs \div 2

AgentStates ==
    {"disconnected", "connecting", "initializing", "listening", "thinking",
     "speaking"}

DidNotJoin == "Agent did not join the room. "
DidNotInit == "Agent connected but did not complete initializing. "

Min(a, b) == IF a <= b THEN a ELSE b
Max(a, b) == IF a >= b THEN a ELSE b

----------------------------------------------------------------------------
(* Lifecycle guard *)

isAgentAvailable(s) == s = "listening" \/ s = "thinking" \/ s = "speaking"

reasonSwapped(s) == IF s = "connecting" THEN DidNotInit ELSE DidNotJoin

reason(s) == IF s = "connecting" THEN DidNotJoin ELSE DidNotInit

\* return () => clearTimeout(timeout)
LifecycleCleanup(timers) == {}

\* The body of the lifecycle effect: the timeout it sets, with the agentState
\* its callback closes over.
LifecycleEffect(started, s) ==
    IF started THEN {[remaining |-> GuardTimeoutMs, agentState |-> s]} ELSE {}

\* A change of the dependencies [agentState, sessionStarted, room]: the
\* cleanup of the previous run, then the effect.
RunLifecycleEffect(timers, started, s) ==
    LifecycleCleanup(timers) \cup LifecycleEffect(started, s)

\* An effect whose dependencies lack agentState: it does not run again.
OnAgentStateIgnored(timers, started, s) == timers

\* agentState is a dependency of the lifecycle effect.
OnAgentState(timers, started, s) == RunLifecycleEffect(timers, started, s)

----------------------------------------------------------------------------
(* Diagnostic-fetch effect (remote-fetch variant) *)

AssistantMessages(msgs) == SelectSeq(msgs, LAMBDA m : ~m.isLocal)

\* A cleanup that leaves the timeout pending.
FetchCleanupKeeps(timers) == timers

\* return () => clearTimeout(timeoutId)
FetchCleanup(timers) == {}

FetchEffect(msgs) ==
    IF Len(AssistantMessages(msgs)) > 0
        THEN {[remaining |-> SettleDelayMs]}
        ELSE {}

\* An effect that leaves a pending timeout in place.
RunFetchEffectOnce(timers, msgs) == IF timers # {} THEN timers ELSE FetchEffect(msgs)

RunFetchEffect(timers, msgs) == FetchCleanup(timers) \cup FetchEffect(msgs)

----------------------------------------------------------------------------
(* JS strings and JSON values                                               *)
(*                                                                          *)
(* A JS string is a sequence of lexemes.  A JS value is a record: t is its   *)
(* type, s the text of a string, number, boolean or null, m the members of  *)
(* an object (key k, value v) or the elements of an array (value v).        *)

Q == "\""

Whitespace == {" ", "\n"}
NumberLexemes == {"0", "7"}

Undefined == [t |-> "undefined", s |-> <<>>, m |-> <<>>]
JNull == [t |-> "null", s |-> <<"null">>, m |-> <<>>]
JStr(str) == [t |-> "str", s |-> str, m |-> <<>>]
JNum(lexeme) == [t |-> "num", s |-> <<lexeme>>, m |-> <<>>]
JBool(lexeme) == [t |-> "bool", s |-> <<lexeme>>, m |-> <<>>]
JObj(members) == [t |-> "obj", s |-> <<>>, m |-> members]
JArr(elements) == [t |-> "arr", s |-> <<>>, m |-> elements]

\* A lexeme of a string in JSON text, and back.
Escape(x) == IF x = "\n" THEN "\\n" ELSE IF x = Q THEN "\\\"" ELSE x
Unescape(x) == IF x = "\\n" THEN "\n" ELSE IF x = "\\\"" THEN Q ELSE x

Fail == [ok |-> FALSE, v |-> Undefined, next |-> 0]
Parsed(v, next) == [ok |-> TRUE, v |-> v, next |-> next]

RECURSIVE SkipWs(_, _)
SkipWs(s, i) ==
    IF i <= Len(s) /\ s[i] \in Whitespace THEN SkipWs(s, i + 1) ELSE i

\* A string literal that opens at s[i]: up to the next quote, no raw newline.
ParseString(s, i) ==
    LET closing == {k \in (i + 1)..Len(s) : s[k] = Q}
    IN  IF closing = {} THEN Fail
        ELSE LET k == CHOOSE c \in closing : \A d \in closing : c <= d
                 body == SubSeq(s, i + 1, k - 1)
             IN  IF \E j \in 1..Len(body) : body[j] = "\n" THEN Fail
                 ELSE Parsed(JStr([j \in 1..Len(body) |-> Unescape(body[j])]), k + 1)

\* An object keeps a key once, at the place of its first occurrence, with the
\* value of its last.
SetMember(members, key, val) ==
    IF \E i \in 1..Len(members) : members[i].k = key
        THEN [i \in 1..Len(members) |->
                 IF members[i].k = key THEN [k |-> key, v |-> val] ELSE members[i]]
        ELSE Append(members, [k |-> key, v |-> val])

RECURSIVE ParseValue(_, _), ParseMembers(_, _, _), ParseElements(_, _, _)

ParseMembers(s, i, acc) ==
    LET j == SkipWs(s, i)
    IN  IF j > Len(s) \/ s[j] # Q THEN Fail
        ELSE LET key == ParseString(s, j)
                 c == SkipWs(s, key.next)
             IN  IF ~key.ok \/ c > Len(s) \/ s[c] # ":" THEN Fail
                 ELSE LET val == ParseValue(s, c + 1)
                          e == SkipWs(s, val.next)
                          acc2 == SetMember(acc, key.v.s, val.v)
                      IN  IF ~val.ok \/ e > Len(s) THEN Fail
                          ELSE IF s[e] = "," THEN ParseMembers(s, e + 1, acc2)
                          ELSE IF s[e] = "}" THEN Parsed(JObj(acc2), e + 1)
                          ELSE Fail

ParseElements(s, i, acc) ==
    LET val == ParseValue(s, i)
        e == SkipWs(s, val.next)
        acc2 == Append(acc, [k |-> <<>>, v |-> val.v])
    IN  IF ~val.ok \/ e > Len(s) THEN Fail
        ELSE IF s[e] = "," THEN ParseElements(s, e + 1, acc2)
        ELSE IF s[e] = "]" THEN Parsed(JArr(acc2), e + 1)
        ELSE Fail

ParseValue(s, i) ==
    LET j == SkipWs(s, i)
        k == SkipWs(s, j + 1)
    IN  IF j > Len(s) THEN Fail
        ELSE IF s[j] = "{"
            THEN IF k <= Len(s) /\ s[k] = "}" THEN Parsed(JObj(<<>>), k + 1)
                 ELSE ParseMembers(s, j + 1, <<>>)
        ELSE IF s[j] = "["
            THEN IF k <= Len(s) /\ s[k] = "]" THEN Parsed(JArr(<<>>), k + 1)
                 ELSE ParseElements(s, j + 1, <<>>)
        ELSE IF s[j] = Q THEN ParseString(s, j)
        ELSE IF s[j] \in NumberLexemes THEN Parsed(JNum(s[j]), j + 1)
        ELSE IF s[j] \in {"true", "false"} THEN Parsed(JBool(s[j]), j + 1)
        ELSE IF s[j] = "null" THEN Parsed(JNull, j + 1)
        ELSE Fail

\* JSON.parse: ok is FALSE where it throws.
JSONparse(s) ==
    LET r == ParseValue(s, 1)
    IN  IF r.ok /\ SkipWs(s, r.next) > Len(s) THEN r ELSE Fail

StringLiteral(str) == <<Q>> \o [j \in 1..Len(str) |-> Escape(str[j])] \o <<Q>>

RECURSIVE JSONstringify(_), StringifyAll(_, _, _)

\* JSON.stringify of a value that JSON.parse produced.
JSONstringify(v) ==
    IF v.t = "str" THEN StringLiteral(v.s)
    ELSE IF v.t = "obj" THEN <<"{">> \o StringifyAll(v.m, 1, TRUE) \o <<"}">>
    ELSE IF v.t = "arr" THEN <<"[">> \o StringifyAll(v.m, 1, FALSE) \o <<"]">>
    ELSE v.s

StringifyAll(m, i, keyed) ==
    IF i > Len(m) THEN <<>>
    ELSE (IF i > 1 THEN <<",">> ELSE <<>>)
         \o (IF keyed THEN StringLiteral(m[i].k) \o <<":">> ELSE <<>>)
         \o JSONstringify(m[i].v)
         \o StringifyAll(m, i + 1, keyed)

\* v.key
Get(v, key) ==
    IF v.t = "obj" /\ \E i \in 1..Len(v.m) : v.m[i].k = <<key>>
        THEN v.m[CHOOSE i \in 1..Len(v.m) : v.m[i].k = <<key>>].v
        ELSE Undefined

\* The value counts as true in a condition.
Truthy(v) ==
    /\ v.t \notin {"undefined", "null"}
    /\ ~(v.t = "str" /\ v.s = <<>>)
    /\ ~(v.t = "num" /\ v.s = <<"0">>)
    /\ ~(v.t = "bool" /\ v.s = <<"false">>)

TypeofString(v) == v.t = "str"
IsArray(v) == v.t = "arr"
Elements(v) == [i \in 1..Len(v.m) |-> v.m[i].v]

RECURSIVE TrimStart(_), TrimEnd(_)
TrimStart(s) == IF s # <<>> /\ Head(s) \in Whitespace THEN TrimStart(Tail(s)) ELSE s
TrimEnd(s) ==
    IF s # <<>> /\ s[Len(s)] \in Whitespace
        THEN TrimEnd(SubSeq(s, 1, Len(s) - 1))
        ELSE s
\* A trim of the start only.
TrimStartOnly(s) == TrimStart(s)

Trim(s) == TrimEnd(TrimStart(s))

\* /^VOICE:([\s\S]*?)\|\|\|TEXT:([\s\S]*)$/ : the groups end and begin at the
\* first "|||TEXT:".
VoiceTextMatch(raw) ==
    LET marks == {k \in 2..Len(raw) : raw[k] = "|||TEXT:"}
    IN  IF raw # <<>> /\ raw[1] = "VOICE:" /\ marks # {}
            THEN LET k == CHOOSE c \in marks : \A d \in marks : c <= d
                 IN  [matched |-> TRUE,
                      voice |-> SubSeq(raw, 2, k - 1),
                      text |-> SubSeq(raw, k + 1, Len(raw))]
            ELSE [matched |-> FALSE, voice |-> <<>>, text |-> <<>>]

----------------------------------------------------------------------------
(* Resolver of the local-parse variant, transcript, panel *)

\* parsed && parsed[key] && typeof parsed[key].content === 'string'
HasContentUnder(parsed, key) ==
    /\ Truthy(parsed)
    /\ Truthy(Get(parsed, key))
    /\ TypeofString(Get(Get(parsed, key), "content"))

\* The try block on the TEXT segment: parsedText is JSON.parse(textSegment).
\* <<>> where no branch returns and the resolver falls to its last line.
FromParsedText(textSegment, parsedText) ==
    IF ~parsedText.ok THEN textSegment
    ELSE IF HasContentUnder(parsedText.v, "diagnostic_report")
        THEN JSONstringify(Get(parsedText.v, "diagnostic_report"))
    ELSE IF Truthy(parsedText.v) /\ TypeofString(Get(parsedText.v, "content"))
        THEN JSONstringify(parsedText.v)
    ELSE <<>>

\* The VOICE:...|||TEXT:... rule and the last line.
FromVoiceTextMatch(voiceTextMatch) ==
    IF voiceTextMatch.matched
        THEN FromParsedText(voiceTextMatch.text, JSONparse(voiceTextMatch.text))
        ELSE <<>>

\* The rules in their order: parsed is JSON.parse(raw).
FromParsed(raw, parsed) ==
    IF parsed.ok /\ HasContentUnder(parsed.v, "diagnostic_report")
        THEN JSONstringify(Get(parsed.v, "diagnostic_report"))
    ELSE IF parsed.ok /\ HasContentUnder(parsed.v, "text_output")
        THEN JSONstringify(Get(parsed.v, "text_output"))
    ELSE FromVoiceTextMatch(VoiceTextMatch(raw))

FromLastMessage(raw) == FromParsed(raw, JSONparse(raw))

getLatestTextContent(msgs) ==
    IF Len(AssistantMessages(msgs)) = 0 THEN <<>>
    ELSE FromLastMessage(AssistantMessages(msgs)[Len(AssistantMessages(msgs))].message)

\* One entry of displayMessages, parsed being JSON.parse(m.message) and match
\* the match of the VOICE|||TEXT pattern: the message field is a JS value, a
\* string unless voice_output is something else.
DisplayOf(m, parsed, match) ==
    IF parsed.ok /\ Truthy(parsed.v) /\ Truthy(Get(parsed.v, "voice_output"))
        THEN [isLocal |-> m.isLocal, message |-> Get(parsed.v, "voice_output")]
    ELSE IF match.matched
        THEN [isLocal |-> m.isLocal, message |-> JStr(Trim(match.voice))]
    ELSE [isLocal |-> m.isLocal, message |-> JStr(m.message)]

DisplayMessage(m) == DisplayOf(m, JSONparse(m.message), VoiceTextMatch(m.message))

DisplayMessages(msgs) == [i \in 1..Len(msgs) |-> DisplayMessage(msgs[i])]

\* parseStructured of the panel, parsed being JSON.parse(raw); ok is FALSE
\* where it returns null.
StructuredOf(parsed) ==
    IF parsed.ok /\ Truthy(parsed.v) /\ Truthy(Get(parsed.v, "content"))
        THEN [ok |-> TRUE,
              mainContent |-> Get(parsed.v, "content"),
              webSources |-> IF IsArray(Get(parsed.v, "web_sources"))
                                 THEN Elements(Get(parsed.v, "web_sources"))
                                 ELSE <<>>,
              youtubeVideos |-> IF IsArray(Get(parsed.v, "youtube_videos"))
                                    THEN Elements(Get(parsed.v, "youtube_videos"))
                                    ELSE <<>>,
              structured |-> TRUE]
        ELSE [ok |-> FALSE, mainContent |-> Undefined, webSources |-> <<>>,
              youtubeVideos |-> <<>>, structured |-> FALSE]

parseStructured(raw) == StructuredOf(JSONparse(raw))

legacyParse(content) ==
    IF content = <<>>
        THEN [mainContent |-> JStr(<<>>), webSources |-> <<>>,
              youtubeVideos |-> <<>>, structured |-> FALSE]
        ELSE [mainContent |-> JStr(content), webSources |-> <<>>,
              youtubeVideos |-> <<>>, structured |-> FALSE]

\* parseStructured(textContent) || legacyParse(textContent)
StructuredOrLegacy(p, text) ==
    IF p.ok
        THEN [mainContent |-> p.mainContent, webSources |-> p.webSources,
              youtubeVideos |-> p.youtubeVideos, structured |-> p.structured]
        ELSE legacyParse(text)

TextOutputPanel(text) == StructuredOrLegacy(parseStructured(text), text)

----------------------------------------------------------------------------
(* formatMainContent of the panel                                           *)
(*                                                                          *)
(* The text is a sequence of lexemes: "**", ":", the bullet, a blank, a      *)
(* newline, a word.  A replacement string is one lexeme before the group     *)
(* and one after it, named by its element and without its class list.       *)

Bullet == "(bullet)"

HeaderOpen == "<h3>"
HeaderClose == "</h3>"
CalloutOpen == "<div callout><strong>Category:</strong> <span>"
CalloutClose == "</span></div>"
RowOpen == "<div row><span>(bullet)</span><span>"
RowClose == "</span></div>"
ParagraphBreak == "<div class=my-4></div>"
LineBreak == "<br>"

\* The first index from i on where s has a newline, Len(s) + 1 if none.
LineEnd(s, i) ==
    IF \E k \in i..Len(s) : s[k] = "\n"
        THEN CHOOSE k \in i..Len(s) : s[k] = "\n" /\ \A j \in i..(k - 1) : s[j] # "\n"
        ELSE Len(s) + 1

\* /\*\*([^*]+):\*\*/ at the head of s: the index of the closing "**", 0 where
\* it does not match.  The group runs to the ":" before the next "**".
HeaderEnd(s) ==
    IF Len(s) >= 4 /\ s[1] = "**" /\ \E k \in 2..Len(s) : s[k] = "**"
        THEN LET k == CHOOSE c \in 2..Len(s) :
                          s[c] = "**" /\ \A d \in 2..(c - 1) : s[d] # "**"
             IN  IF k >= 4 /\ s[k - 1] = ":" THEN k ELSE 0
        ELSE 0

RECURSIVE ReplaceHeaders(_)
ReplaceHeaders(s) ==
    IF s = <<>> THEN <<>>
    ELSE IF HeaderEnd(s) > 0
        THEN <<HeaderOpen>> \o SubSeq(s, 2, HeaderEnd(s) - 2) \o <<HeaderClose>>
                 \o ReplaceHeaders(SubSeq(s, HeaderEnd(s) + 1, Len(s)))
    ELSE <<Head(s)>> \o ReplaceHeaders(Tail(s))

\* /\*\*Category:\*\*\s*([^\n]+)/ at the head of s: where the group begins, 0
\* where it does not match.  \s* takes all the white space it can and gives
\* back down to a blank when nothing but white space follows.
CategoryGroup(s) ==
    IF Len(s) >= 5 /\ SubSeq(s, 1, 4) = <<"**", "Category", ":", "**">>
        THEN IF SkipWs(s, 5) <= Len(s) THEN SkipWs(s, 5)
             ELSE IF \E k \in 5..Len(s) : s[k] = " "
                 THEN CHOOSE k \in 5..Len(s) :
                          s[k] = " " /\ \A j \in (k + 1)..Len(s) : s[j] # " "
             ELSE 0
        ELSE 0

RECURSIVE ReplaceCategory(_)
ReplaceCategory(s) ==
    IF s = <<>> THEN <<>>
    ELSE IF CategoryGroup(s) > 0
        THEN <<CalloutOpen>>
                 \o SubSeq(s, CategoryGroup(s), LineEnd(s, CategoryGroup(s)) - 1)
                 \o <<CalloutClose>>
                 \o ReplaceCategory(SubSeq(s, LineEnd(s, CategoryGroup(s)), Len(s)))
    ELSE <<Head(s)>> \o ReplaceCategory(Tail(s))

\* /^(bullet) (.+)$/gm : atStart says that s begins a line.
RECURSIVE ReplaceBullets(_, _)
ReplaceBullets(s, atStart) ==
    IF s = <<>> THEN <<>>
    ELSE IF atStart /\ Len(s) >= 3 /\ s[1] = Bullet /\ s[2] = " " /\ s[3] # "\n"
        THEN <<RowOpen>> \o SubSeq(s, 3, LineEnd(s, 3) - 1) \o <<RowClose>>
                 \o ReplaceBullets(SubSeq(s, LineEnd(s, 3), Len(s)), FALSE)
    ELSE <<Head(s)>> \o ReplaceBullets(Tail(s), Head(s) = "\n")

\* .replace(/\n\n/g, ...)
RECURSIVE ReplaceDoubleNewlines(_)
ReplaceDoubleNewlines(s) ==
    IF s = <<>> THEN <<>>
    ELSE IF Len(s) >= 2 /\ s[1] = "\n" /\ s[2] = "\n"
        THEN <<ParagraphBreak>> \o ReplaceDoubleNewlines(SubSeq(s, 3, Len(s)))
    ELSE <<Head(s)>> \o ReplaceDoubleNewlines(Tail(s))

\* .replace(/\n/g, '<br>')
ReplaceNewlines(s) == [i \in 1..Len(s) |-> IF s[i] = "\n" THEN LineBreak ELSE s[i]]

formatMainContent(content) ==
    ReplaceNewlines(
        ReplaceDoubleNewlines(
            ReplaceBullets(ReplaceCategory(ReplaceHeaders(content)), TRUE)))

\* {mainContent && <div dangerouslySetInnerHTML={{ __html: ... }} />}: a
\* mainContent that is not a string has no replace method, and the render
\* throws.
Markup(p) ==
    IF ~Truthy(p.mainContent) THEN <<>>
    ELSE IF p.mainContent.t = "str" THEN formatMainContent(p.mainContent.s)
    ELSE <<"TypeError">>

----------------------------------------------------------------------------
(* fetchDiagnosticData (remote-fetch variant)                               *)

\* What await fetch(apiUrl) gives: the promise rejects, or a response with its
\* ok flag and its body.
NetworkError == [rejected |-> TRUE, ok |-> FALSE, body |-> <<>>]
Response(ok, body) == [rejected |-> FALSE, ok |-> ok, body |-> body]

\* if (result.data)
HasData(v) == Truthy(v)

\* The value of diagnosticData that the rest of fetchDiagnosticData leaves,
\* result being await response.json(): it rejects where the body is not JSON,
\* and the catch leaves the state alone.
AfterResponse(data, response, result) ==
    IF response.rejected THEN data
    ELSE IF ~response.ok THEN data
    ELSE IF ~result.ok THEN data
    ELSE IF HasData(Get(result.v, "data"))
        THEN JSONstringify(Get(result.v, "data"))
    ELSE data

fetchDiagnosticData(data, response) ==
    AfterResponse(data, response, JSONparse(response.body))

\* getLatestTextContent of the remote-fetch variant.
LatestDiagnosticData(data) == IF data # <<>> THEN data ELSE <<>>

----------------------------------------------------------------------------
(* The messages of the timer specification: one of the user, one of the     *)
(* agent.  Their content plays no part in the effects.                      *)

TimerMsgs ==
    {[isLocal |-> TRUE, message |-> <<"hello">>],
     [isLocal |-> FALSE, message |-> <<"hello">>]}

Init ==
    /\ mounted = TRUE
    /\ sessionStarted = FALSE
    /\ agentState = "disconnected"
    /\ guardTimers = {}
    /\ toasts = <<>>
    /\ disconnects = 0
    /\ messages = <<>>
    /\ settleTimers = {}
    /\ fetchesIssued = 0
    /\ textContent = <<>>
    /\ panel = TextOutputPanel(<<>>)
    /\ displayMessages = <<>>
    /\ html = Markup(panel)
    /\ diagnosticData = <<>>
    /\ inFlight = {}
    /\ completed = <<>>
    /\ burst = [since |-> 0, changes |-> 0, fetches |-> 0]
    /\ elapsed = 0
    /\ readySeen = "never"
    /\ cancelled = {}

Remaining(timers) == {t.remaining : t \in timers}

\* The parent sets sessionStarted: the lifecycle effect runs again.
StartSession ==
    /\ mounted
    /\ ~sessionStarted
    /\ sessionStarted' = TRUE
    /\ guardTimers' = RunLifecycleEffect(guardTimers, TRUE, agentState)
    /\ toasts' = <<>>
    /\ disconnects' = 0
    /\ elapsed' = 0
    /\ readySeen' = IF isAgentAvailable(agentState) THEN "atStart" ELSE "never"
    /\ cancelled' = {}
    /\ UNCHANGED <<mounted, agentState, messages, settleTimers, fetchesIssued,
                   renderVars, fetchState, burst>>

\* The parent clears sessionStarted: the cleanup runs, the effect sets no
\* timeout.
EndSession ==
    /\ mounted
    /\ sessionStarted
    /\ sessionStarted' = FALSE
    /\ guardTimers' = RunLifecycleEffect(guardTimers, FALSE, agentState)
    /\ cancelled' = cancelled \cup Remaining(guardTimers)
    /\ elapsed' = 0
    /\ UNCHANGED <<mounted, agentState, toasts, disconnects, messages,
                   settleTimers, fetchesIssued, renderVars, fetchState, burst,
                   readySeen>>

\* useVoiceAssistant reports another agent state: the lifecycle effect runs
\* again.
AgentStateChange(s) ==
    /\ mounted
    /\ s # agentState
    /\ agentState' = s
    /\ guardTimers' = OnAgentState(guardTimers, sessionStarted, s)
    /\ readySeen' = IF sessionStarted /\ isAgentAvailable(s)
                        THEN (IF elapsed > 0 THEN "later"
                              ELSE IF readySeen = "never" THEN "atStart"
                              ELSE readySeen)
                        ELSE readySeen
    /\ UNCHANGED <<mounted, sessionStarted, toasts, disconnects, messages,
                   settleTimers, fetchesIssued, renderVars, fetchState, burst,
                   elapsed, cancelled>>

\* The callback of the lifecycle timeout, with the agentState it closed over.
GuardTimeout ==
    \E t \in guardTimers :
        /\ t.remaining = 0
        /\ guardTimers' = guardTimers \ {t}
        /\ IF ~isAgentAvailable(t.agentState)
              THEN /\ toasts' = Append(toasts, reason(t.agentState))
                   /\ disconnects' = disconnects + 1
              ELSE UNCHANGED <<toasts, disconnects>>
        /\ UNCHANGED <<mounted, sessionStarted, agentState, messages,
                       settleTimers, fetchesIssued, renderVars, fetchState,
                       burst, elapsed, readySeen, cancelled>>

\* The message list changes to next (remote-fetch variant): the component
\* renders and the diagnostic-fetch effect runs again.
MessagesChange(next) ==
    /\ mounted
    /\ messages' = next
    /\ settleTimers' = RunFetchEffect(settleTimers, messages')
    /\ displayMessages' = DisplayMessages(messages')
    /\ burst' = [since |-> 0,
                 changes |-> IF messages # <<>> /\ burst.since < SettleDelayMs
                                 THEN Min(burst.changes + 1, 2)
                                 ELSE 1,
                 fetches |-> 0]
    /\ UNCHANGED <<mounted, sessionStarted, agentState, guardTimers, toasts,
                   disconnects, fetchesIssued, textContent, panel, html,
                   fetchState, elapsed, readySeen, cancelled>>

\* A message arrives.
ReceiveMessage(m) ==
    /\ Len(messages) < MaxMsgs
    /\ MessagesChange(Append(messages, m))

\* A message arrives in a list that holds MaxMsgs messages already.  Of the
\* list only its last MaxMsgs messages are kept: the effect reads of it that it
\* changed and whether it holds a message of the assistant, and the oldest
\* message is let go only where that stays as it is.  The stream of messages
\* ends when MaxFetches fetches were issued.
ReceiveLaterMessage(m) ==
    /\ Len(messages) = MaxMsgs
    /\ fetchesIssued < MaxFetches
    /\ (Len(AssistantMessages(Append(Tail(messages), m))) > 0)
          = (Len(AssistantMessages(Append(messages, m))) > 0)
    /\ MessagesChange(Append(Tail(messages), m))

\* The callback of the settle timeout: fetchDiagnosticData() issues the fetch.
SettleTimeout ==
    \E t \in settleTimers :
        /\ t.remaining = 0
        /\ settleTimers' = settleTimers \ {t}
        /\ fetchesIssued' = fetchesIssued + 1
        /\ inFlight' = inFlight \cup {fetchesIssued + 1}
        /\ burst' = [burst EXCEPT !.fetches = @ + 1]
        /\ UNCHANGED <<mounted, sessionStarted, agentState, guardTimers, toasts,
                       disconnects, messages, renderVars, diagnosticData,
                       completed, elapsed, readySeen, cancelled>>

\* The promise of a fetch settles and fetchDiagnosticData resumes; a state
\* update of a component that is not mounted is dropped.
FetchCompletes(id, response) ==
    /\ id \in inFlight
    /\ inFlight' = inFlight \ {id}
    /\ completed' = Append(completed, [id |-> id, response |-> response])
    /\ diagnosticData' = IF mounted
                             THEN fetchDiagnosticData(diagnosticData, response)
                             ELSE diagnosticData
    /\ textContent' = LatestDiagnosticData(diagnosticData')
    /\ panel' = TextOutputPanel(textContent')
    /\ html' = Markup(panel')
    /\ UNCHANGED <<mounted, sessionStarted, agentState, guardTimers, toasts,
                   disconnects, messages, settleTimers, fetchesIssued,
                   displayMessages, burst, elapsed, readySeen, cancelled>>

\* The component is torn down: the cleanups of both effects run.
Unmount ==
    /\ mounted
    /\ mounted' = FALSE
    /\ guardTimers' = LifecycleCleanup(guardTimers)
    /\ settleTimers' = FetchCleanup(settleTimers)
    /\ cancelled' = cancelled \cup Remaining(guardTimers) \cup Remaining(settleTimers)
    /\ UNCHANGED <<sessionStarted, agentState, toasts, disconnects, messages,
                   fetchesIssued, renderVars, fetchState, burst, elapsed,
                   readySeen>>

\* Time passes, up to the next deadline.
TickWithin(limit) ==
    LET pending == Remaining(guardTimers) \cup Remaining(settleTimers)
        d == IF pending = {} THEN TickMs
             ELSE Min(TickMs, CHOOSE r \in pending : \A q \in pending : r <= q)
        Later(timers) == {[t EXCEPT !.remaining = @ - d] : t \in timers}
    IN  /\ 0 \notin pending
        /\ \/ sessionStarted /\ mounted
           \/ pending # {}
           \/ \E r \in cancelled : r > 0
           \/ messages # <<>> /\ burst.since < SettleDelayMs
        /\ sessionStarted /\ mounted => elapsed + d <= limit
        /\ elapsed' = IF sessionStarted /\ mounted THEN elapsed + d ELSE elapsed
        /\ guardTimers' = Later(guardTimers)
        /\ settleTimers' = Later(settleTimers)
        /\ cancelled' = {Max(r - d, 0) : r \in cancelled}
        /\ burst' = IF messages = <<>> THEN burst
                    ELSE [burst EXCEPT !.since = Min(@ + d, SettleDelayMs)]
        /\ UNCHANGED <<mounted, sessionStarted, agentState, toasts, disconnects,
                       messages, fetchesIssued, renderVars, fetchState, readySeen>>

Next ==
    \/ StartSession
    \/ EndSession
    \/ \E s \in AgentStates : AgentStateChange(s)
    \/ GuardTimeout
    \/ \E m \in TimerMsgs : ReceiveMessage(m)
    \/ SettleTimeout
    \/ Unmount
    \/ TickWithin(MaxClockMs)

Spec == Init /\ [][Next]_vars

\* The lifecycle guard alone: no message arrives.
NextGuard ==
    \/ StartSession
    \/ EndSession
    \/ \E s \in AgentStates : AgentStateChange(s)
    \/ GuardTimeout
    \/ Unmount
    \/ TickWithin(MaxSessionMs)

SpecGuard == Init /\ [][NextGuard]_vars

----------------------------------------------------------------------------
(* The diagnostic fetch alone: messages, the settle timeout, the responses  *)
(* of the endpoint.                                                         *)

\* {"data":<payload>}
DataBody(payload) == <<"{", Q, "data", Q, ":">> \o payload \o <<"}">>

PayloadX == <<"{", Q, "content", Q, ":", Q, "X", Q, "}">>
PayloadY == <<"{", Q, "content", Q, ":", Q, "Y", Q, "}">>

\* Responses with data in them.
GoodResponses == {Response(TRUE, DataBody(PayloadX)), Response(TRUE, DataBody(PayloadY))}

\* A network error, a 500, and 200 responses without data, with data '' and
\* with data {}.
FailedResponses ==
    {NetworkError,
     Response(FALSE, DataBody(PayloadX)),
     Response(TRUE, <<"{", "}">>),
     Response(TRUE, DataBody(<<Q, Q>>)),
     Response(TRUE, DataBody(<<"{", "}">>))}

Responses == GoodResponses \cup FailedResponses

NextFetch ==
    \/ \E m \in TimerMsgs : ReceiveMessage(m)
    \/ SettleTimeout
    \/ \E id \in inFlight, response \in Responses : FetchCompletes(id, response)
    \/ Unmount
    \/ TickWithin(MaxClockMs)

SpecFetch == Init /\ [][NextFetch]_vars

----------------------------------------------------------------------------
(* The settle timeout under a stream of messages without end.  Time passes  *)
(* and a timeout that is due runs its callback: the event loop sees to      *)
(* both.  Nothing says that a message arrives or that the component is torn *)
(* down.                                                                    *)

NextLive ==
    \/ \E m \in TimerMsgs : ReceiveMessage(m)
    \/ \E m \in TimerMsgs : ReceiveLaterMessage(m)
    \/ SettleTimeout
    \/ Unmount
    \/ TickWithin(MaxClockMs)

SpecLive ==
    /\ Init
    /\ [][NextLive]_vars
    /\ WF_vars(SettleTimeout)
    /\ WF_vars(TickWithin(MaxClockMs))

----------------------------------------------------------------------------
(* The local-parse variant: each change of the message list renders the     *)
(* transcript and hands getLatestTextContent() to the panel.                *)

Contents == {<<>>, <<"X">>}

\* web_sources as JSON text and as the value it stands for.
Sources ==
    {[text |-> <<"[", "]">>, value |-> <<>>],
     [text |-> <<"[", "{", Q, "title", Q, ":", Q, "T", Q, ",",
                 Q, "url", Q, ":", Q, "U", Q, "}", "]">>,
      value |-> <<JObj(<<[k |-> <<"title">>, v |-> JStr(<<"T">>)],
                         [k |-> <<"url">>, v |-> JStr(<<"U">>)]>>)>>]}

\* {"content":c}
ContentPayload(c) == <<"{", Q, "content", Q, ":", Q>> \o c \o <<Q, "}">>

\* {"content":c,"web_sources":w}
ReportText(c, w) ==
    <<"{", Q, "content", Q, ":", Q>> \o c
        \o <<Q, ",", Q, "web_sources", Q, ":">> \o w.text \o <<"}">>

\* {"diagnostic_report":{"content":c}}
ReportPayload(c) ==
    <<"{", Q, "diagnostic_report", Q, ":">> \o ContentPayload(c) \o <<"}">>

\* {"voice_output":"Hi","diagnostic_report":{"content":c,"web_sources":w}}
DiagnosticReportMsg(c, w) ==
    <<"{", Q, "voice_output", Q, ":", Q, "Hi", Q, ",",
      Q, "diagnostic_report", Q, ":">> \o ReportText(c, w) \o <<"}">>

\* {"voice_output":"Hi","text_output":{"content":c}}
TextOutputMsg(c) ==
    <<"{", Q, "voice_output", Q, ":", Q, "Hi", Q, ",",
      Q, "text_output", Q, ":">> \o ContentPayload(c) \o <<"}">>

\* VOICE:<speech>|||TEXT:<payload>
VoiceTextMsg(speech, payload) == <<"VOICE:">> \o speech \o <<"|||TEXT:">> \o payload

Speeches == {<<"Hi there">>}

\* TEXT payloads that are JSON with a string content field.
ContentPayloads ==
    {ContentPayload(c) : c \in Contents} \cup {ReportPayload(c) : c \in Contents}

\* TEXT payloads without one: plain text, JSON of another shape, a number,
\* nothing.
OtherPayloads ==
    {<<"Check", " ", "cable">>, <<"{", Q, "foo", Q, ":", Q, "bar", Q, "}">>,
     <<"7">>, <<>>}

\* Voice parts with white space and newlines around and inside, each with what
\* is left of it once the white space at its two ends is removed.
MarkerVoices ==
    {[raw |-> <<" ", "\n", "Hi", "\n", "there", " ", "\n">>,
      trimmed |-> <<"Hi", "\n", "there">>],
     [raw |-> <<"Hi", " ", "there">>, trimmed |-> <<"Hi", " ", "there">>],
     [raw |-> <<" ">>, trimmed |-> <<>>]}

\* Text parts: lines, a second marker, JSON with a voice_output.
MarkerTexts ==
    {<<"B1", "\n", "B2">>,
     <<"more", "|||TEXT:", "again">>,
     <<"{", Q, "voice_output", Q, ":", Q, "no", Q, "}">>}

\* What the agent sends.
AssistantRaw ==
    {DiagnosticReportMsg(c, w) : c \in Contents, w \in Sources}
        \cup {TextOutputMsg(c) : c \in {<<"X">>}}
        \cup {VoiceTextMsg(sp, pl) : sp \in Speeches,
                                      pl \in ContentPayloads \cup OtherPayloads}
        \cup {VoiceTextMsg(a.raw, b) : a \in MarkerVoices, b \in MarkerTexts}
        \cup {<<"{", Q, "voice_output", Q, ":", Q, Q, "}">>,
              <<"{", Q, "voice_output", Q, ":", "7", "}">>,
              <<"hello">>}

PanelMsgs ==
    {[isLocal |-> FALSE, message |-> raw] : raw \in AssistantRaw}
        \cup {[isLocal |-> TRUE, message |-> <<"hello">>]}

\* The message list changes (local-parse variant): the component renders.
LocalReceiveMessage(m) ==
    /\ mounted
    /\ Len(messages) < MaxMsgs
    /\ messages' = Append(messages, m)
    /\ displayMessages' = DisplayMessages(messages')
    /\ textContent' = getLatestTextContent(messages')
    /\ panel' = TextOutputPanel(textContent')
    /\ html' = Markup(panel')
    /\ UNCHANGED <<mounted, sessionStarted, agentState, guardTimers, toasts,
                   disconnects, settleTimers, fetchesIssued, fetchState, burst,
                   elapsed, readySeen, cancelled>>

NextPanel == \E m \in PanelMsgs : LocalReceiveMessage(m)

SpecPanel == Init /\ [][NextPanel]_vars

----------------------------------------------------------------------------
(* The panel alone: it renders with a report in plain text as textContent.  *)

MaxLines == 4

\* The lines of a report: the category, a header, a bullet, a blank line, text.
ReportLines ==
    {<<"**", "Category", ":", "**", " ", "Electrical">>,
     <<"**", "Steps", ":", "**">>,
     <<Bullet, " ", "Check", " ", "cable">>,
     <<>>,
     <<"Next">>}

\* The number of lines of a report.
LineCount(text) == 1 + Cardinality({k \in 1..Len(text) : text[k] = "\n"})

\* The parent renders the panel with another textContent.
RenderPanel(text) ==
    /\ mounted
    /\ textContent' = text
    /\ panel' = TextOutputPanel(text)
    /\ html' = Markup(panel')
    /\ UNCHANGED <<mounted, sessionStarted, agentState, guardTimers, toasts,
                   disconnects, messages, settleTimers, fetchesIssued,
                   displayMessages, fetchState, burst, elapsed, readySeen,
                   cancelled>>

\* The report comes line by line: its first line, then one more line at a
\* time.
NextFormat ==
    \E line \in ReportLines :
        \/ textContent = <<>> /\ RenderPanel(line)
        \/ /\ LineCount(textContent) < MaxLines
           /\ RenderPanel(textContent \o <<"\n">> \o line)

SpecFormat == Init /\ [][NextFormat]_vars

----------------------------------------------------------------------------
(* Claims about the lifecycle guard, under SpecGuard; C6, about both timers, *)
(* under Spec                                                               *)

\* The guard acts in this step: a notice is shown or room.disconnect() is called.
GuardActs == Len(toasts') > Len(toasts) \/ disconnects' > disconnects

\* C1: once more than 10 seconds have passed since the session start without
\* the agent having been listening, thinking or speaking, room.disconnect()
\* has been called and the notice has been shown, whatever changes among the
\* other agent states happened in between.
C1_FiresTenSecondsAfterStart ==
    (mounted /\ sessionStarted /\ readySeen = "never" /\ elapsed > GuardTimeoutMs)
        => (disconnects >= 1 /\ Len(toasts) >= 1)

\* C3: when the agent became listening, thinking or speaking after the
\* session start and before the 10 seconds since the session start have
\* elapsed, the guard does not act when they elapse.
C3_ReadyBeforeTimeoutCancels ==
    [][(GuardActs /\ elapsed <= GuardTimeoutMs) => readySeen # "later"]_vars

\* C3 witness: more than 10 seconds into the session nothing has fired, and the
\* pending timeout was set on a change to an available state that happened
\* less than 10 seconds after the session start.
C3_Witness ==
    /\ mounted /\ sessionStarted /\ readySeen = "later"
    /\ elapsed > GuardTimeoutMs
    /\ disconnects = 0 /\ toasts = <<>>
    /\ \E t \in guardTimers :
          /\ t.agentState \in {"listening", "thinking", "speaking"}
          /\ elapsed - (GuardTimeoutMs - t.remaining) < GuardTimeoutMs
          /\ elapsed - (GuardTimeoutMs - t.remaining) > 0

\* C4: whenever the guard acts it shows one notice and disconnects once, the
\* agent state of that moment is none of listening, thinking, speaking, and the
\* notice says "did not join" exactly when that state is connecting.
C4_Wording ==
    [][GuardActs =>
        /\ agentState \notin {"listening", "thinking", "speaking"}
        /\ disconnects' = disconnects + 1
        /\ toasts' = Append(toasts,
                            IF agentState = "connecting"
                                THEN "Agent did not join the room. "
                                ELSE "Agent connected but did not complete initializing. ")
      ]_vars

\* C4 witness: in one session the guard has fired with each of the two wordings.
C4_Witness ==
    /\ disconnects = Len(toasts)
    /\ \E i, j \in 1..Len(toasts) :
          /\ toasts[i] = "Agent did not join the room. "
          /\ toasts[j] = "Agent connected but did not complete initializing. "

\* C5: for one session start the guard shows the notice and calls
\* room.disconnect() at most once.
C5_OneShot == disconnects <= 1 /\ Len(toasts) <= 1

\* C6: once the component is torn down no timer acts: no disconnect, no notice,
\* no fetch; and while sessionStarted is false the guard does not act.
C6_NoTimerAfterTeardown ==
    [][/\ ~mounted => (~GuardActs /\ fetchesIssued' = fetchesIssued)
       /\ ~sessionStarted => ~GuardActs]_vars

\* C6 witness: the component is torn down, a lifecycle timeout and a settle
\* timeout were pending then, and the time to their deadlines has passed.
C6_Witness ==
    /\ ~mounted
    /\ sessionStarted
    /\ cancelled = {0}
    /\ elapsed < GuardTimeoutMs
    /\ agentState = "connecting"
    /\ Len(messages) > 0 /\ ~messages[Len(messages)].isLocal
    /\ fetchesIssued = 0
    /\ disconnects = 0

----------------------------------------------------------------------------
(* Claims about the resolver, the panel and the transcript, under SpecPanel *)

LastAssistantRaw ==
    AssistantMessages(messages)[Len(AssistantMessages(messages))].message

HasAssistantMessage == Len(AssistantMessages(messages)) > 0

\* No rule of the resolver applies to the raw message.
NoRuleMatches(raw) ==
    /\ ~(JSONparse(raw).ok /\ HasContentUnder(JSONparse(raw).v, "diagnostic_report"))
    /\ ~(JSONparse(raw).ok /\ HasContentUnder(JSONparse(raw).v, "text_output"))
    /\ ~(raw # <<>> /\ raw[1] = "VOICE:" /\ \E k \in 2..Len(raw) : raw[k] = "|||TEXT:")

\* C2: once the panel shows a non-empty mainContent, a newest assistant message
\* that fails all parse rules leaves the mainContent of the panel as it was.
C2_KeepsLastGood ==
    [][(/\ panel.mainContent # JStr(<<>>)
        /\ messages' # messages
        /\ ~messages'[Len(messages')].isLocal
        /\ NoRuleMatches(messages'[Len(messages')].message))
       => panel'.mainContent = panel.mainContent]_vars

\* C7: when the last assistant message is JSON whose diagnostic_report has the
\* string content c (the empty string too) and the web_sources w, the panel
\* shows mainContent c and webSources w.
C7_StructuredReport ==
    \A c \in Contents, w \in Sources :
        (HasAssistantMessage /\ LastAssistantRaw = DiagnosticReportMsg(c, w))
            => (panel.mainContent = JStr(c) /\ panel.webSources = w.value)

\* C8: when the last assistant message is VOICE:<speech>|||TEXT:<payload> and
\* the payload is JSON with the string content c, directly or under
\* diagnostic_report, the panel shows mainContent c.
C8_TextJsonWins ==
    \A sp \in Speeches, c \in Contents :
        (/\ HasAssistantMessage
         /\ LastAssistantRaw \in {VoiceTextMsg(sp, ContentPayload(c)),
                                  VoiceTextMsg(sp, ReportPayload(c))})
            => panel.mainContent = JStr(c)

\* C9: when the last assistant message is VOICE:<speech>|||TEXT:<payload> with
\* a non-empty payload, getLatestTextContent returns a non-empty string, and
\* it returns the payload itself when the payload carries no report object.
C9_VoiceTextAccepted ==
    \A sp \in Speeches, pl \in ContentPayloads \cup OtherPayloads :
        (HasAssistantMessage /\ pl # <<>> /\ LastAssistantRaw = VoiceTextMsg(sp, pl))
            => /\ textContent # <<>>
               /\ pl \in OtherPayloads => textContent = pl

\* C10: a message that parses as JSON with a string voice_output is displayed
\* as that string (the empty string too), and every displayed message is a
\* string.
C10_VoiceOutputDisplayed ==
    /\ Len(displayMessages) = Len(messages)
    /\ \A i \in 1..Len(messages) :
          LET parsed == JSONparse(messages[i].message)
          IN  /\ (parsed.ok /\ TypeofString(Get(parsed.v, "voice_output")))
                    => displayMessages[i].message = Get(parsed.v, "voice_output")
              /\ displayMessages[i].message.t = "str"

\* b occurs in s as a run of lexemes.
Occurs(b, s) == \E k \in 0..(Len(s) - Len(b)) : SubSeq(s, k + 1, k + Len(b)) = b

\* C11: a message VOICE:A|||TEXT:B, A and B with newlines or not, is displayed
\* as A without the white space at its two ends, and B is not in what is
\* displayed.
C11_MarkerRule ==
    \A i \in 1..Len(messages) : \A a \in MarkerVoices, b \in MarkerTexts :
        messages[i].message = VoiceTextMsg(a.raw, b)
            => /\ i <= Len(displayMessages)
               /\ displayMessages[i].message = JStr(a.trimmed)
               /\ ~Occurs(b, displayMessages[i].message.s)

\* C11 witness: a displayed message whose voice part had newlines and white
\* space at both ends and whose text part holds a second marker.
C11_Witness ==
    \E i \in 1..Len(messages) :
        /\ messages[i].message =
              VoiceTextMsg(<<" ", "\n", "Hi", "\n", "there", " ", "\n">>,
                           <<"more", "|||TEXT:", "again">>)
        /\ displayMessages[i].message = JStr(<<"Hi", "\n", "there">>)

----------------------------------------------------------------------------
(* Claims about the diagnostic fetch, under SpecFetch *)

\* Two or more changes of the message list, each less than the settle delay
\* after the one before, ended a settle delay ago or longer, no timeout is
\* left to run, and the component is mounted.
BurstOver ==
    /\ mounted
    /\ burst.changes >= 2
    /\ burst.since >= SettleDelayMs
    /\ settleTimers = {}

\* A fetch is issued in this step.
FetchIssued == fetchesIssued' > fetchesIssued

\* C12 as stated: at most one settle timeout is pending at any moment; a fetch
\* is issued only one settle delay after the last change of the message list
\* and only once for it; and every burst of two or more changes less than the
\* settle delay apart gets exactly one fetch.
C12_OneFetchPerBurst ==
    /\ [](Cardinality(settleTimers) <= 1)
    /\ [][FetchIssued => (burst.since = SettleDelayMs /\ burst.fetches = 0)]_vars
    /\ [](BurstOver => burst.fetches = 1)

\* C12 amended: as C12, but the burst gets its one fetch when the list holds a
\* message of the assistant, and none when it holds none.
C12_OneFetchPerAssistantBurst ==
    /\ [](Cardinality(settleTimers) <= 1)
    /\ [][FetchIssued => (burst.since = SettleDelayMs /\ burst.fetches = 0)]_vars
    /\ [](BurstOver =>
            burst.fetches = IF Len(AssistantMessages(messages)) > 0 THEN 1 ELSE 0)

\* C12 witness: a burst of two changes that ended a settle delay ago and got
\* one fetch.
C12_Witness ==
    /\ BurstOver
    /\ Len(AssistantMessages(messages)) > 0
    /\ burst.fetches = 1 /\ fetchesIssued = 1
    /\ settleTimers = {}

\* A fetch settles in this step.
FetchSettles == Len(completed') > Len(completed)

\* A data field with nothing in it: absent, null, '', {} or [].
NoData(v) == ~Truthy(v) \/ (v.t \in {"obj", "arr"} /\ v.m = <<>>)

\* The fetch ended with a network error, with a response that is not 2xx, or
\* with a 2xx response without data.
FetchFailed(response) ==
    \/ response.rejected
    \/ ~response.ok
    \/ ~JSONparse(response.body).ok
    \/ NoData(Get(JSONparse(response.body).v, "data"))

\* C13: when a fetch ends with a network error, a response that is not 2xx or
\* a 2xx response whose data is absent or empty, diagnosticData stays what it
\* was, no timeout is set and no fetch is issued; and a fetch is issued only
\* when none was issued since the last change of the message list.
C13_FailureKeepsPayload ==
    /\ [][(FetchSettles /\ FetchFailed(completed'[Len(completed')].response))
            => /\ diagnosticData' = diagnosticData
               /\ settleTimers' = settleTimers
               /\ fetchesIssued' = fetchesIssued]_vars
    /\ [][FetchIssued => burst.fetches = 0]_vars

\* C14: a settle timeout is set when the number of assistant messages changes,
\* and a change of the message list that leaves that number as it was sets no
\* timeout and leaves a pending one with the time it had.
C14_TriggerOnAssistantCount ==
    [][/\ Len(AssistantMessages(messages')) # Len(AssistantMessages(messages))
            => settleTimers' = {[remaining |-> SettleDelayMs]}
       /\ (/\ messages' # messages
           /\ Len(AssistantMessages(messages')) = Len(AssistantMessages(messages)))
            => settleTimers' = settleTimers]_vars

\* The settled fetches whose data fetchDiagnosticData stored.
StoredFetches ==
    {i \in 1..Len(completed) :
        /\ ~completed[i].response.rejected
        /\ completed[i].response.ok
        /\ JSONparse(completed[i].response.body).ok
        /\ Truthy(Get(JSONparse(completed[i].response.body).v, "data"))}

\* The serialized data of a settled fetch.
DataOf(i) == JSONstringify(Get(JSONparse(completed[i].response.body).v, "data"))

\* C15: while the component is mounted diagnosticData is empty when no fetch
\* has ended with data, and else it is the serialized data of the fetch issued
\* last among those that ended with data, in whatever order they ended.
C15_LatestIssuedWins ==
    mounted =>
        /\ StoredFetches = {} => diagnosticData = <<>>
        /\ \A i \in StoredFetches :
              (\A j \in StoredFetches : completed[j].id <= completed[i].id)
                  => diagnosticData = DataOf(i)

----------------------------------------------------------------------------
(* Claim about formatMainContent, under SpecFormat *)

\* The text has this line.
HasLine(text, line) ==
    \/ text = line
    \/ Len(text) > Len(line) /\ SubSeq(text, 1, Len(line) + 1) = line \o <<"\n">>
    \/ Len(text) > Len(line)
          /\ SubSeq(text, Len(text) - Len(line), Len(text)) = <<"\n">> \o line
    \/ Occurs(<<"\n">> \o line \o <<"\n">>, text)

\* C16: of a mainContent with a line "**Category:** Electrical" the markup has
\* the callout of Category around "Electrical"; of one with a line
\* "(bullet) Check cable" it has the list row around "Check cable"; of one
\* with one blank line before "Next" it has the paragraph break before "Next".
C16_FormatPipeline ==
    /\ HasLine(textContent, <<"**", "Category", ":", "**", " ", "Electrical">>)
          => Occurs(<<CalloutOpen, "Electrical", CalloutClose>>, html)
    /\ HasLine(textContent, <<Bullet, " ", "Check", " ", "cable">>)
          => Occurs(<<RowOpen, "Check", " ", "cable", RowClose>>, html)
    /\ (\/ Occurs(<<"cable", "\n", "\n", "Next">>, textContent)
        \/ Occurs(<<"Electrical", "\n", "\n", "Next">>, textContent))
          => Occurs(<<ParagraphBreak, "Next">>, html)

----------------------------------------------------------------------------
(* Claim about the settle timeout under SpecLive *)

\* A message of the assistant has just arrived.
AssistantArrived ==
    /\ mounted
    /\ messages # <<>> /\ ~messages[Len(messages)].isLocal
    /\ burst.since = 0 /\ burst.fetches = 0

\* C17: after the arrival of a message of the assistant a fetch is issued,
\* whatever changes of the message list follow, unless the component is torn
\* down.
C17_FetchEventuallyIssued == AssistantArrived ~> (burst.fetches > 0 \/ ~mounted)

----------------------------------------------------------------------------
(* Claim about the lifecycle guard after the start-up, under SpecGuard *)

\* C18: once the agent has become listening, thinking or speaking some time
\* after the session start, the guard shows no notice and calls no
\* room.disconnect() in that session, whatever agent states follow.
C18_ConfinedToStartUp == [][GuardActs => readySeen # "later"]_vars

====
